---- MODULE Spec2Model ----
(***************************************************************************)
(* Model of srikrsna/oauth-introspection: the token validation pipeline    *)
(* (http.go, core.go), the in-memory TTL cache (cache.go), the options     *)
(* (options.go) and the earlier single-file middleware (introspect.go).    *)
(*                                                                         *)
(* Three specifications share the cache and timer actions:                 *)
(*   Spec        the pipeline of http.go + core.go over the cache          *)
(*   CacheSpec   clients calling Cache.Store / Cache.Get directly          *)
(*   LegacySpec  the middleware of introspect.go over the cache            *)
(***************************************************************************)
EXTENDS Integers, Sequences, FiniteSets, TLC

\* ------------------------------------------------------------------ bounds
MaxReqs == 2      \* requests started in a run
MaxOps  == 2      \* direct cache calls started in a run
MaxTime == 1      \* the clock runs 0..MaxTime
MaxTTL  == 1      \* cache expiries are drawn from 1..MaxTTL
MaxGiven == 1     \* names in a map given to WithAddedHeaders or WithAddedBody
MaxOpts == 2      \* options given to makeOptions
MaxIss  == 2      \* characters in an issuer

Procs  == {"p1", "p2"}      \* goroutines serving requests / calling the cache
Tokens == {"t1", "t2"}      \* the cache keys that occur; "" is the empty string
ReqTokens == {"t1"}         \* the credentials inbound requests carry

\* ------------------------------------------------------------- JSON values
\* A json.RawMessage is modelled by its text; Absent marks a key that a map
\* does not hold.
Absent == "<absent>"
Names == {"active", "scope"}
ActiveVals == {"true", "false", "null", "\"yes\""}
ExtraVals == {"\"a b\""}
FieldVals(n) == IF n = "active" THEN ActiveVals ELSE ExtraVals
NoFields == [n \in Names |-> Absent]
Objects == {f \in [Names -> ActiveVals \cup ExtraVals \cup {Absent}] :
              \A n \in Names : f[n] \in FieldVals(n) \cup {Absent}}

\* A response body: text that is not JSON, the JSON text null, or an object.
Bodies == {[json |-> "invalid", fields |-> NoFields],
           [json |-> "null", fields |-> NoFields]}
          \cup {[json |-> "object", fields |-> f] : f \in Objects}

\* The bodies sent with a status other than 200: an error text, and an object
\* that would decode to an active result.
ErrorBodies == {[json |-> "invalid", fields |-> NoFields],
                [json |-> "object", fields |-> [NoFields EXCEPT !["active"] = "true"]]}

\* json.Unmarshal(val, &b) for b a bool that holds false: true and false set
\* it, null is accepted and leaves it alone, anything else is a type error.
UnmarshalBool(raw) ==
    CASE raw = "true" -> [ok |-> TRUE, val |-> TRUE]
      [] raw = "false" -> [ok |-> TRUE, val |-> FALSE]
      [] raw = "null" -> [ok |-> TRUE, val |-> FALSE]
      [] OTHER -> [ok |-> FALSE, val |-> FALSE]

\* json.NewDecoder(r).Decode(&m) for m a map[string]json.RawMessage: the
\* text null decodes without error and leaves no keys, an object gives its
\* top-level fields, anything else is an error.
DecodeObject(body) ==
    CASE body.json = "object" -> [ok |-> TRUE, fields |-> body.fields]
      [] body.json = "null" -> [ok |-> TRUE, fields |-> NoFields]
      [] OTHER -> [ok |-> FALSE, fields |-> NoFields]

\* ------------------------------------------------------- results and errors
\* *Result: the nil pointer, or a Result{Active, Optionals}.
NilRes == [nil |-> TRUE, Active |-> FALSE, Optionals |-> NoFields]
MkResult(a, o) == [nil |-> FALSE, Active |-> a, Optionals |-> o]
\* What a read that races with a map write may see (never produced by a Store).
Torn == [nil |-> FALSE, Active |-> TRUE, Optionals |-> [n \in Names |-> "<torn>"]]

MkErr(k, c) == [kind |-> k, code |-> c]
NilErr == MkErr("nil", 0)
ErrNoBearer == MkErr("no bearer", 0)
ErrNoMiddleware == MkErr("introspection middleware didn't execute", 0)
ErrRequest == MkErr("http.NewRequest", 0)
ErrTransport == MkErr("transport", 0)
ErrStatus(c) == MkErr("status does not indicate success", c)
ErrSyntax == MkErr("json syntax", 0)
ErrType == MkErr("json type", 0)

\* ---------------------------------------------------------------- discovery
\* A string is the sequence of its characters.
Chars == {"h", "/"}
discoveryPath == <<"w">>
NoDisc == [state |-> "idle", iss |-> <<>>, uri |-> <<>>, endpoint |-> <<>>, err |-> NilErr]
Issuers == UNION {[1..n -> Chars] : n \in 0..MaxIss}

\* An issuer taken as it is.
EnsureSlashNever(iss) == iss

\* if iss[len(iss)-1] != '/' { iss += "/" }, for an issuer that is not empty.
EnsureSlash(iss) == IF iss[Len(iss)] # "/" THEN iss \o <<"/">> ELSE iss
DiscoveryURI(iss) == EnsureSlash(iss) \o discoveryPath

\* The introspection_endpoint of the document a server publishes at a URI.
Published(uri) == <<"e">> \o uri
\* What client.Get and the decoding of the body may give for a URI.
DiscoveryOutcomes(uri) ==
    {[endpoint |-> <<>>, err |-> ErrTransport],
     [endpoint |-> <<>>, err |-> ErrSyntax],
     [endpoint |-> <<>>, err |-> NilErr],
     [endpoint |-> Published(uri), err |-> NilErr]}

\* ------------------------------------------------------------ the authority
StatusOK == 200
Statuses == {StatusOK, 400}
CTypes == {"application/json", "text/plain"}
NoResp == [transport |-> FALSE, status |-> 0, ctype |-> "", body |-> [json |-> "invalid", fields |-> NoFields]]
TransportFailure == [transport |-> TRUE, status |-> 0, ctype |-> "", body |-> [json |-> "invalid", fields |-> NoFields]]

\* ------------------------------------------------------------------- state
VARIABLES
    opt,        \* the Options built by makeOptions; read by every request
    optsGiven,  \* the options makeOptions was given, in order
    req,        \* process -> the inbound request whose token it extracts
    outb,       \* process -> the outbound request introspect built last
    disc,       \* process -> its EndpointFromDiscovery call
    results,    \* inMemoryCache.results: token -> entry
    expiry,     \* inMemoryCache.expiry: token -> timer (0: no key)
    timers,     \* every timer time.AfterFunc created, in creation order
    writer,     \* RWMutex: who holds the write lock ("none", a process, "timer")
    readers,    \* RWMutex: the processes holding the read lock
    now,        \* the clock
    authActive, \* the authority: token -> is the token active now
    hits,       \* the authority: token -> introspection calls received
    calls,      \* history: token -> invocations of introspect for it
    pc,         \* process -> where it is
    tok,        \* process -> the token (cache key) it works on
    res,        \* process -> the *Result it holds
    err,        \* process -> the error it holds
    exp,        \* process -> the expiry it stores with
    cached,     \* process -> its result came from the cache
    resp,       \* process -> the authority's response to its call
    ctx,        \* process -> the value under resKey of the request's context
    nreq,       \* history: operations started
    first,      \* history: token -> how the first introspection call for it ended
    overlap,    \* history: token -> two validations of it ran at the same time
    after       \* history: process -> a Store of its key had returned when its Get began

cacheVars == <<results, expiry, timers, writer, readers>>
procVars == <<pc, tok, res, err, exp, cached, resp, ctx>>
histVars == <<nreq, first, overlap, after>>
vars == <<opt, optsGiven, req, outb, disc, results, expiry, timers, writer, readers,
          now, authActive, hits, calls,
          pc, tok, res, err, exp, cached, resp, ctx,
          nreq, first, overlap, after>>

\* ----------------------------------------------------------------- options
GoodEndpoint == "http://auth/introspect"
BadEndpoint == "wrong$$$::///asd/introspect"
Endpoints == {GoodEndpoint, BadEndpoint}
\* http.NewRequest fails on an endpoint url.Parse rejects.
URLParses(endpoint) == endpoint # BadEndpoint

\* http.Header and url.Values are Go maps from a name to its values: a
\* function from the names to a value, Absent for a key the map does not hold.
\* The keys of a Go map are compared byte for byte.
HeaderNames == {"Content-Type", "Accept", "content-type", "Authorization"}
BodyNames == {"token", "token_type_hint", "api"}
GivenVals == {"x", "y"}
Keys(m) == {k \in DOMAIN m : m[k] # Absent}
DefaultHeader ==
    [k \in HeaderNames |-> CASE k = "Content-Type" -> "application/x-www-form-urlencoded"
                             [] k = "Accept" -> "application/json"
                             [] OTHER -> Absent]
DefaultBody ==
    [k \in BodyNames |-> CASE k = "token" -> ""
                           [] k = "token_type_hint" -> "access_token"
                           [] OTHER -> Absent]

\* The maps a caller passes to WithAddedHeaders and WithAddedBody.
GivenMaps(names) ==
    {m \in [names -> GivenVals \cup {Absent}] : Cardinality(Keys(m)) <= MaxGiven}

\* A merge in which the map given wins over what is there.
AddOverwriting(into, m) ==
    [k \in DOMAIN into |-> IF m[k] # Absent THEN m[k] ELSE into[k]]

\* for k, v := range m { if _, ok := into[k]; !ok { into[k] = v } }
AddMissing(into, m) ==
    [k \in DOMAIN into |-> IF m[k] # Absent /\ into[k] = Absent THEN m[k] ELSE into[k]]

\* WithCache(cache, exp): the one in-memory cache of the model, or none.
WithCache(d) == [op |-> "WithCache", exp |-> d]
WithAddedHeaders(h) == [op |-> "WithAddedHeaders", m |-> h]
WithAddedBody(b) == [op |-> "WithAddedBody", m |-> b]
ApplyOption(o, option) ==
    CASE option.op = "WithCache" -> [o EXCEPT !.cache = TRUE, !.cacheExp = option.exp]
      [] option.op = "WithAddedHeaders" -> [o EXCEPT !.header = AddMissing(@, option.m)]
      [] option.op = "WithAddedBody" -> [o EXCEPT !.body = AddMissing(@, option.m)]
      [] OTHER -> o

RECURSIVE ApplyOptions(_, _)
ApplyOptions(o, opts) ==
    IF opts = <<>> THEN o ELSE ApplyOptions(ApplyOption(o, Head(opts)), Tail(opts))

makeOptions(endpoint, opts) ==
    ApplyOptions([endpoint |-> endpoint, cache |-> FALSE, cacheExp |-> 0,
                  body |-> DefaultBody, header |-> DefaultHeader], opts)

\* introspect: the request it builds: a copy of opt.body with token set to
\* the credential, and opt.header as the header.
NoOut == [sent |-> FALSE, body |-> DefaultBody, header |-> DefaultHeader]
NewRequest(o, token) ==
    [sent |-> TRUE, body |-> [o.body EXCEPT !["token"] = token], header |-> o.header]

\* The request made on the configured map itself, with no copy: body.Set
\* then writes the credential into the configuration.
introspectOnSharedBody(o, token) ==
    [opt |-> [o EXCEPT !.body["token"] = token], req |-> NewRequest(o, token)]

\* introspect, up to the request: body is a new map filled with the entries
\* of opt.body, and body.Set("token", token) writes into that new map; the
\* request takes opt.header as it is. opt is the configuration afterwards,
\* req the request made.
introspectRequest(o, token) ==
    LET body == [k \in DOMAIN o.body |-> o.body[k]]
        set == [body EXCEPT !["token"] = token]
    IN [opt |-> o, req |-> [sent |-> TRUE, body |-> set, header |-> o.header]]

OptionLists == {<<>>} \cup {<<WithCache(d)>> : d \in 1..MaxTTL}

\* ------------------------------------------------------------------- cache
Entry(v) == [present |-> TRUE, val |-> v]
NoEntry == [present |-> FALSE, val |-> NilRes]

\* mc.results[key]: the stored pointer, nil for a key the map does not hold.
MapGet(key) == results[key].val

\* A read lock that does not wait for the writer.
CanRLockAlways == TRUE

\* A write lock that waits for the writer only, not for the readers.
CanLockBesideReaders == writer = "none"

\* sync.RWMutex: Lock waits for the writer and the readers to leave, RLock
\* for the writer.
CanLock == writer = "none" /\ readers = {}
CanRLock == writer = "none"

\* The values a read of mc.results[key] may give. Reading while a writer is
\* inside its critical section would be a data race on the map, and then any
\* value can come back.
MapRead(key) ==
    IF writer = "none" THEN {MapGet(key)}
    ELSE {MapGet(key), NilRes, Torn}

\* Get: mc.RLock().
GetRLock(p) ==
    /\ pc[p] = "get"
    /\ CanRLock
    /\ readers' = readers \cup {p}
    /\ pc' = [pc EXCEPT ![p] = "get_cs"]
    /\ UNCHANGED <<results, expiry, timers, writer>>

\* Get: return mc.results[key], with the deferred mc.RUnlock(); v is the
\* value returned.
GetRead(p, v) ==
    /\ pc[p] = "get_cs"
    /\ v \in MapRead(tok[p])
    /\ readers' = readers \ {p}
    /\ UNCHANGED <<results, expiry, timers, writer>>

\* Store: mc.Lock().
StoreLock(p) ==
    /\ pc[p] = "store"
    /\ CanLock
    /\ writer' = p
    /\ pc' = [pc EXCEPT ![p] = "store_cs"]
    /\ UNCHANGED <<results, expiry, timers, readers>>

\* Timer.Stop(): a timer that has not fired will not; one that has fired,
\* whose function is already running in its goroutine, is not touched.
Stop(t) == IF t.state = "pending" THEN [t EXCEPT !.state = "stopped"] ELSE t

\* A timer that is due at once, whatever the expiry.
AfterFuncNow(key, d, v) ==
    [key |-> key, deadline |-> now, state |-> "pending",
     at |-> now, ttl |-> d, res |-> v]

\* time.AfterFunc(d, f): a timer due d from now. at, ttl and res are
\* history: when the Store that created the timer ran, with which expiry,
\* and the value it wrote.
AfterFunc(key, d, v) ==
    [key |-> key, deadline |-> now + d, state |-> "pending",
     at |-> now, ttl |-> d, res |-> v]

StopKey(key) ==
    IF expiry[key] # 0
    THEN [timers EXCEPT ![expiry[key]] = Stop(timers[expiry[key]])]
    ELSE timers

\* A return that leaves the write lock held.
UnlockForgotten == writer

\* mc.Unlock(): the writer holding the lock leaves.
Unlock == "none"

\* A write that keeps the entry the key already has.
SetResultIfAbsent(key, v) ==
    IF results[key].present THEN results ELSE [results EXCEPT ![key] = Entry(v)]

\* Store: mc.results[key] = res.
SetResult(key, v) == [results EXCEPT ![key] = Entry(v)]

\* Store, inside the lock: write the result, stop the key's timer if the
\* table holds one, schedule the eviction, mc.Unlock().
StoreBody(p) ==
    /\ pc[p] = "store_cs"
    /\ writer = p
    /\ results' = SetResult(tok[p], res[p])
    /\ timers' = Append(StopKey(tok[p]), AfterFunc(tok[p], exp[p], res[p]))
    /\ expiry' = [expiry EXCEPT ![tok[p]] = Len(timers) + 1]
    /\ writer' = Unlock
    /\ UNCHANGED readers

\* The runtime starts the function of a timer that is due, in its own
\* goroutine; it may start it late.
TimerFire(i) ==
    /\ i \in 1..Len(timers)
    /\ timers[i].state = "pending"
    /\ now >= timers[i].deadline
    /\ timers' = [timers EXCEPT ![i].state = "fired"]
    /\ UNCHANGED <<opt, optsGiven, req, outb, disc, results, expiry, writer, readers, now, authActive, hits, calls>>
    /\ UNCHANGED procVars
    /\ UNCHANGED histVars

\* The eviction function: mc.Lock().
EvictLock(i) ==
    /\ i \in 1..Len(timers)
    /\ timers[i].state = "fired"
    /\ CanLock
    /\ writer' = "timer"
    /\ timers' = [timers EXCEPT ![i].state = "evicting"]
    /\ UNCHANGED <<opt, optsGiven, req, outb, disc, results, expiry, readers, now, authActive, hits, calls>>
    /\ UNCHANGED procVars
    /\ UNCHANGED histVars

\* An eviction that empties the whole table.
DeleteAllResults(key) == [k \in Tokens |-> NoEntry]

\* The eviction function: delete(mc.results, key).
DeleteResult(key) == [results EXCEPT ![key] = NoEntry]

\* An eviction that leaves the key's timer in the table.
KeepExpiry(key) == expiry

\* The eviction function: delete(mc.expiry, key).
DeleteExpiry(key) == [expiry EXCEPT ![key] = 0]

\* The eviction function, inside the lock: delete(mc.results, key),
\* delete(mc.expiry, key), mc.Unlock().
EvictRun(i) ==
    /\ i \in 1..Len(timers)
    /\ timers[i].state = "evicting"
    /\ results' = DeleteResult(timers[i].key)
    /\ expiry' = DeleteExpiry(timers[i].key)
    /\ writer' = Unlock
    /\ timers' = [timers EXCEPT ![i].state = "done"]
    /\ UNCHANGED <<opt, optsGiven, req, outb, disc, readers, now, authActive, hits, calls>>
    /\ UNCHANGED procVars
    /\ UNCHANGED histVars

\* Time passes.
Tick ==
    /\ now < MaxTime
    /\ now' = now + 1
    /\ UNCHANGED <<opt, optsGiven, req, outb, disc, authActive, hits, calls>>
    /\ UNCHANGED cacheVars
    /\ UNCHANGED procVars
    /\ UNCHANGED histVars

\* --------------------------------------------------------------- authority
\* What a call for the token may come back with: the transport fails, or the
\* authority answers, with a Content-Type among ctypes. An authority that answers 200 with an object whose
\* active field is a boolean reports the token's state; with another status
\* the body is one of ErrorBodies.
Responses(token, ctypes) ==
    {TransportFailure} \cup
    {r \in [transport : {FALSE}, status : Statuses, ctype : ctypes, body : Bodies] :
        IF r.status = StatusOK
        THEN (r.body.json = "object" /\ r.body.fields["active"] \in {"true", "false"})
             => (r.body.fields["active"] = "true") = authActive[token]
        ELSE r.body \in ErrorBodies}

\* The authority activates or revokes a token, between the requests that
\* carry it.
AuthorityChange(t) ==
    /\ \A p \in Procs : pc[p] = "idle" \/ tok[p] # t
    /\ authActive' = [authActive EXCEPT ![t] = ~authActive[t]]
    /\ UNCHANGED <<opt, optsGiven, req, outb, disc, now, hits, calls>>
    /\ UNCHANGED cacheVars
    /\ UNCHANGED procVars
    /\ UNCHANGED histVars

\* ---------------------------------------------------------------- pipeline
\* An inbound request: its Authorization header (scheme "" when it has none;
\* a header read from the wire has its trailing blanks trimmed, so a scheme
\* comes with credentials) and its access_token form field ("" when it has
\* none).
Requests ==
    {r \in [scheme : {"", "Bearer", "Basic"}, cred : ReqTokens \cup {""},
            form : ReqTokens \cup {""}] : (r.cred = "") = (r.scheme = "")}

\* r.Header.Get("Authorization") starts with "Bearer ".
HasBearerPrefix(r) == r.scheme = "Bearer"

\* Every inbound request over the tokens, the two sources differing or not.
AllRequests ==
    {r \in [scheme : {"", "Bearer", "Basic"}, cred : Tokens \cup {""},
            form : Tokens \cup {""}] : (r.cred = "") = (r.scheme = "")}

\* grpc_auth.AuthFromMD(ctx, "bearer"): the credentials of the authorization
\* metadata when its scheme is bearer, an error otherwise.
AuthFromMD(r) ==
    IF r.scheme = "Bearer" THEN [token |-> r.cred, err |-> FALSE]
    ELSE [token |-> "", err |-> TRUE]

\* A token extraction that takes the credentials of any scheme.
getTokenAnyScheme(r) == IF r.form # "" THEN r.form ELSE r.cred

\* No request: the process serves none.
NoReq == [scheme |-> "<none>", cred |-> "", form |-> ""]

getTokenFromRequest(r) ==
    IF r.form # "" THEN r.form
    ELSE IF ~HasBearerPrefix(r) THEN ""
    ELSE r.cred

\* A decoder that hands back the half-built result with a type error.
extractKeepingResult(body) ==
    LET d == DecodeObject(body)
        val == d.fields["active"]
        u == UnmarshalBool(val)
    IN  IF ~d.ok THEN [res |-> NilRes, err |-> ErrSyntax]
        ELSE IF val # Absent /\ ~u.ok THEN [res |-> MkResult(FALSE, d.fields), err |-> ErrType]
        ELSE [res |-> MkResult(u.val, [d.fields EXCEPT !["active"] = Absent]),
              err |-> NilErr]

\* A decoder that keeps active and drops every other field.
extractDroppingExtras(body) ==
    LET d == DecodeObject(body)
        val == d.fields["active"]
        u == UnmarshalBool(val)
    IN  IF ~d.ok THEN [res |-> NilRes, err |-> ErrSyntax]
        ELSE IF val # Absent /\ ~u.ok THEN [res |-> NilRes, err |-> ErrType]
        ELSE [res |-> MkResult(u.val, NoFields), err |-> NilErr]

extractIntrospectResult(body) ==
    LET d == DecodeObject(body)
        val == d.fields["active"]
        u == UnmarshalBool(val)
    IN  IF ~d.ok THEN [res |-> NilRes, err |-> ErrSyntax]
        ELSE IF val # Absent
        THEN IF ~u.ok THEN [res |-> NilRes, err |-> ErrType]
             ELSE [res |-> MkResult(u.val, [d.fields EXCEPT !["active"] = Absent]),
                   err |-> NilErr]
        ELSE [res |-> MkResult(FALSE, d.fields), err |-> NilErr]

\* An introspect that does not look at the status code.
introspectIgnoringStatus(r) ==
    IF r.transport THEN [res |-> NilRes, err |-> ErrTransport]
    ELSE extractIntrospectResult(r.body)

\* An introspect that takes every status below 500 for a success.
introspectAcceptingErrors(r) ==
    IF r.transport THEN [res |-> NilRes, err |-> ErrTransport]
    ELSE IF r.status >= 500 THEN [res |-> NilRes, err |-> ErrStatus(r.status)]
    ELSE extractIntrospectResult(r.body)

\* introspect, once opt.Client.Do has returned r.
introspect(r) ==
    IF r.transport THEN [res |-> NilRes, err |-> ErrTransport]
    ELSE IF r.status # StatusOK THEN [res |-> NilRes, err |-> ErrStatus(r.status)]
    ELSE extractIntrospectResult(r.body)

\* A client that sends every request twice.
DoWithRetry(h, token) == [h EXCEPT ![token] = @ + 2]

\* A client that sends a request for a token only when none was sent before.
DoOnce(h, token) == [h EXCEPT ![token] = IF @ = 0 THEN 1 ELSE @]

\* opt.Client.Do(req): the authority receives one call for the token.
Do(h, token) == [h EXCEPT ![token] = @ + 1]

\* A store on failure instead of on success.
ShouldStoreOnError(o, e) == e # NilErr /\ o.cache

\* introspectionResult: store when the call gave no error and a cache is set.
ShouldStore(o, e) == e = NilErr /\ o.cache

InValidation(q) == pc[q] \in {"get", "get_cs", "introspect", "store", "store_cs"}

\* A handler that answers a failed validation itself and returns, the next
\* handler not called.
DeliverOrReject(p, r, e) ==
    IF e # NilErr
    THEN /\ pc' = [pc EXCEPT ![p] = "idle"]
         /\ UNCHANGED ctx
    ELSE /\ ctx' = [ctx EXCEPT ![p] = [set |-> TRUE, Result |-> r, Err |-> e]]
         /\ pc' = [pc EXCEPT ![p] = "next"]

\* The handler calls next.ServeHTTP with &result{r, e} under resKey of the
\* request's context.
Deliver(p, r, e) ==
    /\ ctx' = [ctx EXCEPT ![p] = [set |-> TRUE, Result |-> r, Err |-> e]]
    /\ pc' = [pc EXCEPT ![p] = "next"]

\* The handler starts: the token is taken from the request; without one the
\* next handler runs with ErrNoBearer.
Request(p) ==
    /\ pc[p] = "idle"
    /\ nreq < MaxReqs
    /\ nreq' = nreq + 1
    /\ \E r \in Requests :
        LET token == getTokenFromRequest(r) IN
        IF token = ""
        THEN /\ Deliver(p, NilRes, ErrNoBearer)
             /\ UNCHANGED <<tok, overlap>>
        ELSE /\ tok' = [tok EXCEPT ![p] = token]
             /\ overlap' = [overlap EXCEPT ![token] =
                              @ \/ \E q \in Procs \ {p} : InValidation(q) /\ tok[q] = token]
             /\ pc' = [pc EXCEPT ![p] = IF opt.cache THEN "get" ELSE "introspect"]
             /\ UNCHANGED ctx
    /\ UNCHANGED <<opt, optsGiven, req, outb, disc, now, authActive, hits, calls, res, err, exp, cached, resp, first, after>>
    /\ UNCHANGED cacheVars

\* introspectionResult: opt.cache.Get(token) takes the read lock.
LookupLock(p) ==
    /\ GetRLock(p)
    /\ UNCHANGED <<opt, optsGiven, req, outb, disc, now, authActive, hits, calls, tok, res, err, exp, cached, resp, ctx>>
    /\ UNCHANGED histVars

\* introspectionResult: a hit returns the cached result and a nil error, and
\* the handler passes them on; a miss goes on to introspect.
Lookup(p) ==
    /\ pc[p] = "get_cs"
    /\ \E v \in MapRead(tok[p]) :
        /\ GetRead(p, v)
        /\ IF ~v.nil
           THEN /\ Deliver(p, v, NilErr)
                /\ cached' = [cached EXCEPT ![p] = TRUE]
           ELSE /\ pc' = [pc EXCEPT ![p] = "introspect"]
                /\ UNCHANGED <<cached, ctx>>
    /\ UNCHANGED <<opt, optsGiven, req, outb, disc, now, authActive, hits, calls, tok, res, err, exp, resp>>
    /\ UNCHANGED histVars

\* introspectionResult: the call to introspect and the decision to store;
\* without a store the handler passes the result and the error on.
Introspect(p) ==
    /\ pc[p] = "introspect"
    /\ calls' = [calls EXCEPT ![tok[p]] = @ + 1]
    /\ opt' = introspectRequest(opt, tok[p]).opt
    /\ IF ~URLParses(opt.endpoint)
       THEN /\ Deliver(p, NilRes, ErrRequest)
            /\ UNCHANGED <<hits, outb, resp, first, res, err, exp>>
       ELSE \E r \in Responses(tok[p], {"application/json"}) :
            LET out == introspect(r) IN
            /\ outb' = [outb EXCEPT ![p] = introspectRequest(opt, tok[p]).req]
            /\ hits' = Do(hits, tok[p])
            /\ resp' = [resp EXCEPT ![p] = r]
            /\ first' = [first EXCEPT ![tok[p]] =
                           IF @ # "none" THEN @ ELSE IF out.err = NilErr THEN "ok" ELSE "err"]
            /\ IF ShouldStore(opt, out.err)
               THEN /\ res' = [res EXCEPT ![p] = out.res]
                    /\ err' = [err EXCEPT ![p] = out.err]
                    /\ exp' = [exp EXCEPT ![p] = opt.cacheExp]
                    /\ pc' = [pc EXCEPT ![p] = "store"]
                    /\ UNCHANGED ctx
               ELSE /\ Deliver(p, out.res, out.err)
                    /\ UNCHANGED <<res, err, exp>>
    /\ UNCHANGED <<optsGiven, req, disc, now, authActive, tok, cached, nreq, overlap, after>>
    /\ UNCHANGED cacheVars

\* introspectionResult: opt.cache.Store(token, res, opt.cacheExp) takes the lock.
SaveLock(p) ==
    /\ StoreLock(p)
    /\ UNCHANGED <<opt, optsGiven, req, outb, disc, now, authActive, hits, calls, tok, res, err, exp, cached, resp, ctx>>
    /\ UNCHANGED histVars

\* introspectionResult: the Store returns, and the handler passes the result
\* and the error on.
Save(p) ==
    /\ StoreBody(p)
    /\ ctx' = [ctx EXCEPT ![p] = [set |-> TRUE, Result |-> res[p], Err |-> err[p]]]
    /\ pc' = [pc EXCEPT ![p] = "next"]
    /\ res' = [res EXCEPT ![p] = NilRes]
    /\ err' = [err EXCEPT ![p] = NilErr]
    /\ exp' = [exp EXCEPT ![p] = 0]
    /\ UNCHANGED <<opt, optsGiven, req, outb, disc, now, authActive, hits, calls, tok, cached, resp>>
    /\ UNCHANGED histVars

NoCtx == [set |-> FALSE, Result |-> NilRes, Err |-> NilErr]

\* A FromContext that reports a missing value as a missing bearer.
FromContextNoBearer(c) ==
    IF c.set THEN [Result |-> c.Result, Err |-> c.Err]
    ELSE [Result |-> NilRes, Err |-> ErrNoBearer]

\* FromContext(ctx), as the next handler calls it.
FromContext(c) ==
    IF c.set THEN [Result |-> c.Result, Err |-> c.Err]
    ELSE [Result |-> NilRes, Err |-> ErrNoMiddleware]

\* The next handler returns and the request is over.
Return(p) ==
    /\ pc[p] = "next"
    /\ pc' = [pc EXCEPT ![p] = "idle"]
    /\ tok' = [tok EXCEPT ![p] = ""]
    /\ cached' = [cached EXCEPT ![p] = FALSE]
    /\ resp' = [resp EXCEPT ![p] = NoResp]
    /\ ctx' = [ctx EXCEPT ![p] = NoCtx]
    /\ outb' = [outb EXCEPT ![p] = NoOut]
    /\ UNCHANGED <<opt, optsGiven, req, disc, now, authActive, hits, calls, res, err, exp>>
    /\ UNCHANGED cacheVars
    /\ UNCHANGED histVars

\* --------------------------------------------------------- specifications
InitCommon ==
    /\ results = [k \in Tokens |-> NoEntry]
    /\ expiry = [k \in Tokens |-> 0]
    /\ timers = <<>>
    /\ writer = "none"
    /\ readers = {}
    /\ now = 0
    /\ hits = [t \in ReqTokens |-> 0]
    /\ calls = [t \in ReqTokens |-> 0]
    /\ req = [p \in Procs |-> NoReq]
    /\ outb = [p \in Procs |-> NoOut]
    /\ disc = [p \in Procs |-> NoDisc]
    /\ pc = [p \in Procs |-> "idle"]
    /\ tok = [p \in Procs |-> ""]
    /\ res = [p \in Procs |-> NilRes]
    /\ err = [p \in Procs |-> NilErr]
    /\ exp = [p \in Procs |-> 0]
    /\ cached = [p \in Procs |-> FALSE]
    /\ resp = [p \in Procs |-> NoResp]
    /\ ctx = [p \in Procs |-> NoCtx]
    /\ nreq = 0
    /\ first = [t \in ReqTokens |-> "none"]
    /\ overlap = [t \in ReqTokens |-> FALSE]
    /\ after = [p \in Procs |-> FALSE]

Init ==
    /\ InitCommon
    /\ \E e \in Endpoints, opts \in OptionLists :
        /\ optsGiven = opts
        /\ opt = makeOptions(e, opts)
    /\ authActive \in [ReqTokens -> BOOLEAN]

Next ==
    \/ \E p \in Procs : Request(p)
    \/ \E p \in Procs : LookupLock(p)
    \/ \E p \in Procs : Lookup(p)
    \/ \E p \in Procs : Introspect(p)
    \/ \E p \in Procs : SaveLock(p)
    \/ \E p \in Procs : Save(p)
    \/ \E p \in Procs : Return(p)
    \/ \E t \in ReqTokens : AuthorityChange(t)
    \/ \E i \in 1..Len(timers) : TimerFire(i)
    \/ \E i \in 1..Len(timers) : EvictLock(i)
    \/ \E i \in 1..Len(timers) : EvictRun(i)
    \/ Tick

Spec == Init /\ [][Next]_vars

\* ------------------------------------------------ the cache, called directly
\* The results clients store.
StoreVals == {MkResult(TRUE, NoFields), MkResult(FALSE, NoFields)}

HasStored(k) == \E i \in 1..Len(timers) : timers[i].key = k

\* A client calls Store(k, r, d).
ClientStore(p) ==
    /\ pc[p] = "idle"
    /\ nreq < MaxOps
    /\ nreq' = nreq + 1
    /\ \E k \in Tokens, r \in StoreVals, d \in 1..MaxTTL :
        /\ tok' = [tok EXCEPT ![p] = k]
        /\ res' = [res EXCEPT ![p] = r]
        /\ exp' = [exp EXCEPT ![p] = d]
    /\ pc' = [pc EXCEPT ![p] = "store"]
    /\ UNCHANGED <<opt, optsGiven, req, outb, disc, now, authActive, hits, calls, err, cached, resp, ctx, first, overlap, after>>
    /\ UNCHANGED cacheVars

ClientStoreLock(p) ==
    /\ StoreLock(p)
    /\ UNCHANGED <<opt, optsGiven, req, outb, disc, now, authActive, hits, calls, tok, res, err, exp, cached, resp, ctx>>
    /\ UNCHANGED histVars

\* The client's Store returns.
ClientStored(p) ==
    /\ StoreBody(p)
    /\ pc' = [pc EXCEPT ![p] = "idle"]
    /\ tok' = [tok EXCEPT ![p] = ""]
    /\ res' = [res EXCEPT ![p] = NilRes]
    /\ exp' = [exp EXCEPT ![p] = 0]
    /\ UNCHANGED <<opt, optsGiven, req, outb, disc, now, authActive, hits, calls, err, cached, resp, ctx>>
    /\ UNCHANGED histVars

\* A client calls Get(k).
ClientGet(p) ==
    /\ pc[p] = "idle"
    /\ nreq < MaxOps
    /\ nreq' = nreq + 1
    /\ \E k \in Tokens :
        /\ tok' = [tok EXCEPT ![p] = k]
        /\ after' = [after EXCEPT ![p] = HasStored(k)]
    /\ pc' = [pc EXCEPT ![p] = "get"]
    /\ UNCHANGED <<opt, optsGiven, req, outb, disc, now, authActive, hits, calls, res, err, exp, cached, resp, ctx, first, overlap>>
    /\ UNCHANGED cacheVars

ClientGetLock(p) ==
    /\ GetRLock(p)
    /\ UNCHANGED <<opt, optsGiven, req, outb, disc, now, authActive, hits, calls, tok, res, err, exp, cached, resp, ctx>>
    /\ UNCHANGED histVars

\* The client's Get returns v.
ClientGot(p) ==
    /\ pc[p] = "get_cs"
    /\ \E v \in MapRead(tok[p]) :
        /\ GetRead(p, v)
        /\ res' = [res EXCEPT ![p] = v]
    /\ pc' = [pc EXCEPT ![p] = "got"]
    /\ UNCHANGED <<opt, optsGiven, req, outb, disc, now, authActive, hits, calls, tok, err, exp, cached, resp, ctx>>
    /\ UNCHANGED histVars

\* The client is done with the value.
ClientReturn(p) ==
    /\ pc[p] = "got"
    /\ pc' = [pc EXCEPT ![p] = "idle"]
    /\ tok' = [tok EXCEPT ![p] = ""]
    /\ res' = [res EXCEPT ![p] = NilRes]
    /\ after' = [after EXCEPT ![p] = FALSE]
    /\ UNCHANGED <<opt, optsGiven, req, outb, disc, now, authActive, hits, calls, err, exp, cached, resp, ctx, nreq, first, overlap>>
    /\ UNCHANGED cacheVars

CacheInit ==
    /\ InitCommon
    /\ optsGiven = <<>>
    /\ opt = makeOptions(GoodEndpoint, <<>>)
    /\ authActive = [t \in ReqTokens |-> FALSE]

CacheNext ==
    \/ \E p \in Procs : ClientStore(p)
    \/ \E p \in Procs : ClientStoreLock(p)
    \/ \E p \in Procs : ClientStored(p)
    \/ \E p \in Procs : ClientGet(p)
    \/ \E p \in Procs : ClientGetLock(p)
    \/ \E p \in Procs : ClientGot(p)
    \/ \E p \in Procs : ClientReturn(p)
    \/ \E i \in 1..Len(timers) : TimerFire(i)
    \/ \E i \in 1..Len(timers) : EvictLock(i)
    \/ \E i \in 1..Len(timers) : EvictRun(i)
    \/ Tick

CacheSpec == CacheInit /\ [][CacheNext]_vars

\* The clock does not stop while a timer waits for its time: time passes
\* beyond MaxTime until the last pending timer is due.
TickOn ==
    /\ now >= MaxTime
    /\ \E i \in 1..Len(timers) : timers[i].state = "pending" /\ timers[i].deadline > now
    /\ now' = now + 1
    /\ UNCHANGED <<opt, optsGiven, req, outb, disc, authActive, hits, calls>>
    /\ UNCHANGED cacheVars
    /\ UNCHANGED procVars
    /\ UNCHANGED histVars

CacheFairNext ==
    \/ CacheNext
    \/ TickOn

\* The cache under a fair scheduler. Time passes; the runtime starts the
\* function of a due timer in its goroutine; a goroutine that can take or
\* release the lock, or return, does so. Clients need not call again, and
\* need not give back a value they got.
CacheFairSpec ==
    /\ CacheInit
    /\ [][CacheFairNext]_vars
    /\ WF_vars(Tick)
    /\ WF_vars(TickOn)
    /\ WF_vars(\E i \in 1..Len(timers) : TimerFire(i))
    /\ WF_vars(\E i \in 1..Len(timers) : EvictLock(i))
    /\ WF_vars(\E i \in 1..Len(timers) : EvictRun(i))
    /\ WF_vars(\E p \in Procs : ClientStoreLock(p))
    /\ WF_vars(\E p \in Procs : ClientStored(p))
    /\ WF_vars(\E p \in Procs : ClientGetLock(p))
    /\ WF_vars(\E p \in Procs : ClientGot(p))

\* ------------------------------------- the middleware of introspect.go
ErrBearerNotFound == MkErr("bearer not found", 0)
ErrContentType == MkErr("invalid content-type", 0)
ErrMissingActive == MkErr("field 'active' missing from introspection response", 0)

\* The Result of introspect.go: the fields it names (of which the model's
\* responses carry scope), and the other fields under Additional.
LegacyResult(a, scope, additional) ==
    [nil |-> FALSE, Active |-> a, Scope |-> scope, Additional |-> additional]

\* json.Unmarshal(v, &scopes) for a string, then strings.Split(scopes, " ").
UnmarshalScope(raw) ==
    IF raw = "\"a b\"" THEN [ok |-> TRUE, val |-> <<"a", "b">>]
    ELSE [ok |-> FALSE, val |-> <<>>]

LegacyExtractIntrospectResult(body) ==
    LET d == DecodeObject(body)
        v == d.fields["active"]
        u == UnmarshalBool(v)
        sc == d.fields["scope"]
        us == UnmarshalScope(sc)
    IN  IF ~d.ok THEN [res |-> NilRes, err |-> ErrSyntax]
        ELSE IF v = Absent THEN [res |-> NilRes, err |-> ErrMissingActive]
        ELSE IF ~u.ok THEN [res |-> NilRes, err |-> ErrType]
        ELSE IF sc = Absent
        THEN [res |-> LegacyResult(u.val, <<>>, d.fields), err |-> NilErr]
        ELSE IF ~us.ok THEN [res |-> NilRes, err |-> ErrType]
        ELSE [res |-> LegacyResult(u.val, us.val, [d.fields EXCEPT !["scope"] = Absent]),
              err |-> NilErr]

\* introspect of introspect.go, once opt.Client.Do has returned r.
LegacyIntrospectResult(r) ==
    IF r.transport THEN [res |-> NilRes, err |-> ErrTransport]
    ELSE IF r.status # StatusOK THEN [res |-> NilRes, err |-> ErrStatus(r.status)]
    ELSE IF r.ctype # "application/json" THEN [res |-> NilRes, err |-> ErrContentType]
    ELSE LegacyExtractIntrospectResult(r.body)

\* Introspection of introspect.go: the condition under which it stores.
LegacyShouldStore(o, e) == e # NilErr /\ o.cache

\* The handler starts: the token is what follows "Bearer " in the
\* Authorization header.
LegacyRequest(p) ==
    /\ pc[p] = "idle"
    /\ nreq < MaxReqs
    /\ nreq' = nreq + 1
    /\ \E r \in Requests :
        IF ~HasBearerPrefix(r)
        THEN /\ Deliver(p, NilRes, ErrBearerNotFound)
             /\ UNCHANGED <<tok, overlap>>
        ELSE /\ tok' = [tok EXCEPT ![p] = r.cred]
             /\ overlap' = [overlap EXCEPT ![r.cred] =
                              @ \/ \E q \in Procs \ {p} : InValidation(q) /\ tok[q] = r.cred]
             /\ pc' = [pc EXCEPT ![p] = IF opt.cache THEN "get" ELSE "introspect"]
             /\ UNCHANGED ctx
    /\ UNCHANGED <<opt, optsGiven, req, outb, disc, now, authActive, hits, calls, res, err, exp, cached, resp, first, after>>
    /\ UNCHANGED cacheVars

\* The handler calls introspect and decides to store.
LegacyIntrospect(p) ==
    /\ pc[p] = "introspect"
    /\ \E r \in IF URLParses(opt.endpoint) THEN Responses(tok[p], CTypes) ELSE {NoResp} :
        LET called == URLParses(opt.endpoint)
            out == IF called THEN LegacyIntrospectResult(r)
                   ELSE [res |-> NilRes, err |-> ErrRequest]
        IN
        /\ hits' = [hits EXCEPT ![tok[p]] = IF called THEN @ + 1 ELSE @]
        /\ calls' = [calls EXCEPT ![tok[p]] = @ + 1]
        /\ resp' = [resp EXCEPT ![p] = r]
        /\ first' = [first EXCEPT ![tok[p]] =
                       IF @ # "none" \/ ~called THEN @
                       ELSE IF out.err = NilErr THEN "ok" ELSE "err"]
        /\ res' = [res EXCEPT ![p] = out.res]
        /\ err' = [err EXCEPT ![p] = out.err]
        /\ IF LegacyShouldStore(opt, out.err)
           THEN /\ exp' = [exp EXCEPT ![p] = opt.cacheExp]
                /\ pc' = [pc EXCEPT ![p] = "store"]
                /\ UNCHANGED ctx
           ELSE /\ Deliver(p, out.res, out.err)
                /\ UNCHANGED exp
    /\ UNCHANGED <<opt, optsGiven, req, outb, disc, now, authActive, tok, cached, nreq, overlap, after>>
    /\ UNCHANGED cacheVars

LegacyNext ==
    \/ \E p \in Procs : LegacyRequest(p)
    \/ \E p \in Procs : LookupLock(p)
    \/ \E p \in Procs : Lookup(p)
    \/ \E p \in Procs : LegacyIntrospect(p)
    \/ \E p \in Procs : SaveLock(p)
    \/ \E p \in Procs : Save(p)
    \/ \E p \in Procs : Return(p)
    \/ \E t \in ReqTokens : AuthorityChange(t)
    \/ \E i \in 1..Len(timers) : TimerFire(i)
    \/ \E i \in 1..Len(timers) : EvictLock(i)
    \/ \E i \in 1..Len(timers) : EvictRun(i)
    \/ Tick

LegacySpec == Init /\ [][LegacyNext]_vars

\* ------------------------------------------- token extraction, on its own
\* The handler up to the call of introspectionResult, over AllRequests.
Receive(p) ==
    /\ pc[p] = "idle"
    /\ \E r \in AllRequests : req' = [req EXCEPT ![p] = r]
    /\ pc' = [pc EXCEPT ![p] = "recv"]
    /\ UNCHANGED <<opt, optsGiven, outb, disc, now, authActive, hits, calls,
                   tok, res, err, exp, cached, resp, ctx>>
    /\ UNCHANGED cacheVars
    /\ UNCHANGED histVars

Extract(p) ==
    /\ pc[p] = "recv"
    /\ LET token == getTokenFromRequest(req[p]) IN
       IF token = ""
       THEN /\ Deliver(p, NilRes, ErrNoBearer)
            /\ UNCHANGED tok
       ELSE /\ tok' = [tok EXCEPT ![p] = token]
            /\ pc' = [pc EXCEPT ![p] = "token"]
            /\ UNCHANGED ctx
    /\ UNCHANGED <<opt, optsGiven, req, outb, disc, now, authActive, hits, calls,
                   res, err, exp, cached, resp>>
    /\ UNCHANGED cacheVars
    /\ UNCHANGED histVars

Discard(p) ==
    /\ pc[p] \in {"token", "next"}
    /\ pc' = [pc EXCEPT ![p] = "idle"]
    /\ tok' = [tok EXCEPT ![p] = ""]
    /\ req' = [req EXCEPT ![p] = NoReq]
    /\ ctx' = [ctx EXCEPT ![p] = NoCtx]
    /\ UNCHANGED <<opt, optsGiven, outb, disc, now, authActive, hits, calls,
                   res, err, exp, cached, resp>>
    /\ UNCHANGED cacheVars
    /\ UNCHANGED histVars

ExtractNext ==
    \/ \E p \in Procs : Receive(p)
    \/ \E p \in Procs : Extract(p)
    \/ \E p \in Procs : Discard(p)

ExtractSpec == CacheInit /\ [][ExtractNext]_vars

\* ------------------------------------------------------ options, on their own
\* The options a caller may give, and the lists of them.
GivenOptions ==
    {WithAddedHeaders(h) : h \in GivenMaps(HeaderNames)}
    \cup {WithAddedBody(b) : b \in GivenMaps(BodyNames)}
    \cup {WithCache(d) : d \in 1..MaxTTL}

\* makeOptions applies the next option of its list; optsGiven is the list
\* applied so far. No request is served before makeOptions has returned.
Apply ==
    /\ nreq = 0
    /\ Len(optsGiven) < MaxOpts
    /\ \E option \in GivenOptions :
        /\ optsGiven' = Append(optsGiven, option)
        /\ opt' = ApplyOption(opt, option)
    /\ UNCHANGED <<req, outb, disc, now, authActive, hits, calls>>
    /\ UNCHANGED cacheVars
    /\ UNCHANGED procVars
    /\ UNCHANGED histVars

\* introspect builds the outbound request for a token.
Build(p) ==
    /\ pc[p] = "idle"
    /\ nreq = 0
    /\ nreq' = nreq + 1
    /\ \E t \in ReqTokens :
        /\ tok' = [tok EXCEPT ![p] = t]
        /\ outb' = [outb EXCEPT ![p] = NewRequest(opt, t)]
    /\ pc' = [pc EXCEPT ![p] = "built"]
    /\ UNCHANGED <<opt, optsGiven, req, disc, now, authActive, hits, calls,
                   res, err, exp, cached, resp, ctx, first, overlap, after>>
    /\ UNCHANGED cacheVars

\* The request has gone out.
Sent(p) ==
    /\ pc[p] = "built"
    /\ pc' = [pc EXCEPT ![p] = "idle"]
    /\ tok' = [tok EXCEPT ![p] = ""]
    /\ outb' = [outb EXCEPT ![p] = NoOut]
    /\ UNCHANGED <<opt, optsGiven, req, disc, now, authActive, hits, calls,
                   res, err, exp, cached, resp, ctx>>
    /\ UNCHANGED cacheVars
    /\ UNCHANGED histVars

OptionNext ==
    \/ Apply
    \/ \E p \in Procs : Build(p)
    \/ \E p \in Procs : Sent(p)

OptionSpec == CacheInit /\ [][OptionNext]_vars

\* ----------------------------------------------------- endpoint discovery
\* EndpointFromDiscovery(iss) is called: it panics on the empty issuer, else
\* it builds the discovery URI.
Discover(p) ==
    /\ disc[p].state = "idle"
    /\ \E iss \in Issuers :
        disc' = [disc EXCEPT ![p] =
                   IF iss = <<>> THEN [NoDisc EXCEPT !.state = "panic"]
                   ELSE [NoDisc EXCEPT !.state = "get", !.iss = iss,
                                       !.uri = DiscoveryURI(iss)]]
    /\ UNCHANGED <<opt, optsGiven, req, outb, now, authActive, hits, calls>>
    /\ UNCHANGED cacheVars
    /\ UNCHANGED procVars
    /\ UNCHANGED histVars

\* client.Get(discoveryURI) and the decoding of the document: the endpoint
\* and a nil error, or an error.
DiscoverGet(p) ==
    /\ disc[p].state = "get"
    /\ \E o \in DiscoveryOutcomes(disc[p].uri) :
        disc' = [disc EXCEPT ![p].state = "returned",
                             ![p].endpoint = o.endpoint, ![p].err = o.err]
    /\ UNCHANGED <<opt, optsGiven, req, outb, now, authActive, hits, calls>>
    /\ UNCHANGED cacheVars
    /\ UNCHANGED procVars
    /\ UNCHANGED histVars

\* The caller has taken what EndpointFromDiscovery returned.
DiscoverDone(p) ==
    /\ disc[p].state = "returned"
    /\ disc' = [disc EXCEPT ![p] = NoDisc]
    /\ UNCHANGED <<opt, optsGiven, req, outb, now, authActive, hits, calls>>
    /\ UNCHANGED cacheVars
    /\ UNCHANGED procVars
    /\ UNCHANGED histVars

DiscoveryNext ==
    \/ \E p \in Procs : Discover(p)
    \/ \E p \in Procs : DiscoverGet(p)
    \/ \E p \in Procs : DiscoverDone(p)

DiscoverySpec == CacheInit /\ [][DiscoveryNext]_vars

\* ------------------------------------------------------------------ claims
TimersOf(k) == {i \in 1..Len(timers) : timers[i].key = k}
\* No Store of the key has seen its expiry elapse.
TTLNotElapsed(k) == \A i \in TimersOf(k) : now - timers[i].at < timers[i].ttl
StoredOnce(k) == Cardinality(TimersOf(k)) = 1
TheTimer(k) == timers[CHOOSE i \in TimersOf(k) : TRUE]
LastTimer(k) == timers[CHOOSE i \in TimersOf(k) : \A j \in TimersOf(k) : j <= i]
Outstanding(k) == {i \in TimersOf(k) : timers[i].state \in {"pending", "fired", "evicting"}}
IsOK200Object(r) == ~r.transport /\ r.status = StatusOK /\ r.body.json = "object"
MissingActive(r) == IsOK200Object(r) /\ r.body.fields["active"] = Absent
NonBoolActive(r) == IsOK200Object(r) /\ r.body.fields["active"] \notin {Absent, "true", "false"}

\* C1: with a cache, when the validations of a token run one after the other,
\* none after an expiry of the token has elapsed, and the first introspection
\* call succeeded, the authority was called exactly once for the token, and
\* every outcome passed on for it is a non-nil Result with a nil error; an
\* outcome taken from the cache is the cached Result.
C1_OneRemoteCall ==
    \A t \in ReqTokens :
        (opt.cache /\ first[t] = "ok" /\ ~overlap[t] /\ TTLNotElapsed(t))
        => /\ hits[t] = 1
           /\ \A p \in Procs : (pc[p] = "next" /\ tok[p] = t)
                => /\ ctx[p].Err = NilErr
                   /\ ~ctx[p].Result.nil
                   /\ cached[p] => ctx[p].Result = MapGet(t)
                   /\ ~cached[p] => resp[p] # NoResp

\* A second validation of the token has been answered from the cache.
C1_Witness ==
    \E p \in Procs :
        /\ pc[p] = "next" /\ cached[p] /\ tok[p] \in ReqTokens
        /\ opt.cache /\ first[tok[p]] = "ok" /\ ~overlap[tok[p]]
        /\ TTLNotElapsed(tok[p]) /\ hits[tok[p]] = 1 /\ nreq >= 2

\* C2: for a key stored once, a Get that holds the read lock reads the stored
\* Result while less than the expiry has elapsed since the Store, and reads
\* nil once the eviction has run; a Get begun after the Store and returned
\* before the expiry elapsed returned the stored Result.
C2_GetWithinTTL ==
    \A p \in Procs :
        (pc[p] \in {"get_cs", "got"} /\ StoredOnce(tok[p])) =>
            LET T == TheTimer(tok[p]) IN
            /\ (pc[p] = "get_cs" /\ now - T.at < T.ttl) => MapRead(tok[p]) = {T.res}
            /\ (pc[p] = "get_cs" /\ T.state = "done") => MapRead(tok[p]) = {NilRes}
            /\ (pc[p] = "got" /\ after[p] /\ now - T.at < T.ttl) => res[p] = T.res

\* A Get of a key stored once reads nil after the expiry, the eviction done.
C2_Witness ==
    \E p \in Procs :
        /\ pc[p] = "get_cs" /\ after[p] /\ StoredOnce(tok[p])
        /\ TheTimer(tok[p]).state = "done"
        /\ now - TheTimer(tok[p]).at >= TheTimer(tok[p]).ttl
        /\ MapRead(tok[p]) = {NilRes}

\* C3: a key stored again keeps the entry of the later Store until the
\* expiry of that Store has elapsed: no eviction scheduled by an earlier
\* Store removes it.
C3_NoStaleEviction ==
    \A k \in Tokens :
        (Cardinality(TimersOf(k)) >= 2 /\ now - LastTimer(k).at < LastTimer(k).ttl)
        => results[k] = Entry(LastTimer(k).res)

\* C4: a Store is made only with a nil error, and every value stored is a
\* Result.
C4_StoreOnlyOnSuccess ==
    /\ \A p \in Procs : pc[p] \in {"store", "store_cs"} => err[p] = NilErr
    /\ \A i \in 1..Len(timers) : ~timers[i].res.nil

\* C5 as stated: a request whose token is not active at the authority never
\* gets a Result with Active true.
C5_NeverActiveForInactive ==
    \A p \in Procs :
        (pc[p] = "next" /\ tok[p] \in ReqTokens /\ ~ctx[p].Result.nil /\ ctx[p].Result.Active)
        => authActive[tok[p]]

\* C5 amended: a request whose token is not active at the authority gets a
\* Result with Active true only from a cache that is configured, never from
\* an introspection call made for it.
C5_ActiveOnlyIfActiveOrCached ==
    \A p \in Procs :
        (pc[p] = "next" /\ tok[p] \in ReqTokens /\ ~ctx[p].Result.nil /\ ctx[p].Result.Active)
        => authActive[tok[p]] \/ (opt.cache /\ cached[p])

\* An introspection call has answered a request with Active true for a token
\* that is active, while another request got a failure.
C5_Witness ==
    \E p \in Procs :
        /\ pc[p] = "next" /\ tok[p] \in ReqTokens /\ ~cached[p]
        /\ ~ctx[p].Result.nil /\ ctx[p].Result.Active /\ authActive[tok[p]]

\* C6: a 200 response with an object that has no active field gives an error
\* and a nil Result, and is not stored.
C6_MissingActiveIsError ==
    \A p \in Procs :
        MissingActive(resp[p]) =>
            /\ pc[p] \notin {"store", "store_cs"}
            /\ pc[p] = "next" => (ctx[p].Err # NilErr /\ ctx[p].Result.nil)

\* C7: a 200 response with an object whose active field is not a boolean
\* gives an error and a nil Result, and is not stored.
C7_NonBoolActiveIsError ==
    \A p \in Procs :
        NonBoolActive(resp[p]) =>
            /\ pc[p] \notin {"store", "store_cs"}
            /\ pc[p] = "next" => (ctx[p].Err # NilErr /\ ctx[p].Result.nil)

\* C8: every outcome under resKey has a non-nil error with a nil Result, or a
\* nil error with a non-nil Result; so has what FromContext returns.
C8_OneHalfSet ==
    \A p \in Procs :
        /\ ctx[p].set => ((ctx[p].Err # NilErr) <=> ctx[p].Result.nil)
        /\ (FromContext(ctx[p]).Err # NilErr) <=> FromContext(ctx[p]).Result.nil

\* One request has got a stored Result, another a status error.
C8_Witness ==
    \E p, q \in Procs :
        /\ pc[p] = "next" /\ ctx[p].Err = NilErr /\ ~ctx[p].Result.nil /\ ~cached[p]
        /\ HasStored(tok[p])
        /\ pc[q] = "next" /\ ctx[q].Err = ErrStatus(400) /\ ctx[q].Result.nil

\* C9: while no expiry of the key has elapsed, a Get never reads or returns a
\* torn value: what it returns is nil or the Result some Store of the key
\* wrote, and it is not nil when a Store of the key had returned before the
\* Get began.
C9_NoTornRead ==
    \A p \in Procs :
        /\ pc[p] = "get_cs" => Torn \notin MapRead(tok[p])
        /\ pc[p] = "got" =>
            /\ res[p] # Torn
            /\ res[p].nil \/ \E i \in TimersOf(tok[p]) : timers[i].res = res[p]
            /\ (after[p] /\ TTLNotElapsed(tok[p])) => ~res[p].nil

\* A Get begun after a Store of its key has returned that Store's Result.
C9_Witness ==
    \E p \in Procs :
        /\ pc[p] = "got" /\ after[p] /\ TTLNotElapsed(tok[p])
        /\ \E i \in TimersOf(tok[p]) : timers[i].res = res[p]

\* C10: at most one eviction of a key is outstanding: scheduled, or fired and
\* not finished.
C10_OneOutstandingEviction ==
    \A k \in Tokens : Cardinality(Outstanding(k)) <= 1

NoCredential(r) == r.scheme # "Bearer" /\ r.form = ""

\* C11: a request without a Bearer Authorization header and without a form
\* field gives no token (nor do its metadata to AuthFunc), and a request
\* without a token is passed on with ErrNoBearer and a nil Result, having
\* made no call to the authority and taken no lock of the cache.
C11_NoBearer ==
    /\ \A r \in AllRequests :
          NoCredential(r) => (getTokenFromRequest(r) = "" /\ AuthFromMD(r).err)
    /\ \A p \in Procs :
          /\ (pc[p] = "next" /\ tok[p] = "")
               => /\ ctx[p] = [set |-> TRUE, Result |-> NilRes, Err |-> ErrNoBearer]
                  /\ resp[p] = NoResp /\ ~outb[p].sent /\ ~cached[p]
          /\ tok[p] = "" => (pc[p] \in {"idle", "next"} /\ p \notin readers /\ writer # p)
          /\ (ctx[p].set /\ ctx[p].Err = ErrNoBearer) => tok[p] = ""

\* With a cache configured, a request without a token has been passed on;
\* the authority has had no call and the cache no Store.
C11_Witness ==
    \E p \in Procs :
        /\ pc[p] = "next" /\ tok[p] = "" /\ ctx[p].Err = ErrNoBearer
        /\ opt.cache /\ \A t \in ReqTokens : hits[t] = 0 /\ calls[t] = 0
        /\ timers = <<>>

\* C12: when a request has a Bearer header, the token extracted is the one
\* of the header, whatever its form field holds.
C12_HeaderFirst ==
    \A p \in Procs :
        (pc[p] \in {"token", "next"} /\ HasBearerPrefix(req[p])) => tok[p] = req[p].cred

\* C13: FromContext on a context the pipeline has set no value on returns a
\* nil Result and ErrNoMiddleware; on a context the pipeline has set, it
\* never returns ErrNoMiddleware; and ErrNoMiddleware is not ErrNoBearer.
C13_NotValidated ==
    /\ ErrNoMiddleware # ErrNoBearer
    /\ \A p \in Procs :
          /\ ~ctx[p].set => FromContext(ctx[p]) = [Result |-> NilRes, Err |-> ErrNoMiddleware]
          /\ ctx[p].set => FromContext(ctx[p]).Err # ErrNoMiddleware

\* One context has no outcome while another holds a failed introspection.
C13_Witness ==
    \E p, q \in Procs :
        /\ pc[p] = "idle" /\ ~ctx[p].set
        /\ pc[q] = "next" /\ ctx[q].set /\ resp[q] # NoResp
        /\ ctx[q].Err \notin {NilErr, ErrNoBearer}

\* C14: a response with a status other than 200 gives the error that holds
\* the status code and a nil Result, whatever its body, and is not stored.
C14_StatusError ==
    \A p \in Procs :
        (resp[p] # NoResp /\ ~resp[p].transport /\ resp[p].status # StatusOK)
        => /\ pc[p] = "next" /\ ~cached[p]
           /\ ctx[p].Err = ErrStatus(resp[p].status)
           /\ ctx[p].Result.nil

\* A 400 response whose body would decode to an active Result, for an
\* active token.
C14_Witness ==
    \E p \in Procs :
        /\ pc[p] = "next" /\ resp[p] # NoResp /\ ~resp[p].transport
        /\ resp[p].status = 400 /\ resp[p].body.json = "object"
        /\ resp[p].body.fields["active"] = "true"
        /\ ctx[p].Err = ErrStatus(400)

\* What introspectionResult holds or has returned for the request.
Outcome(p) ==
    IF pc[p] = "next" THEN [Result |-> ctx[p].Result, Err |-> ctx[p].Err]
    ELSE [Result |-> res[p], Err |-> err[p]]
Introspected(p) == pc[p] \in {"store", "store_cs", "next"} /\ tok[p] # "" /\ ~cached[p]

\* C17: a Result decoded without error from a 200 response with an object
\* holds in Optionals each field of the object but active, with its value,
\* and no other; it has Active true when active is true; an object with
\* active true alone gives Active true and empty Optionals.
C17_OptionalsKept ==
    \A p \in Procs :
        (Introspected(p) /\ IsOK200Object(resp[p]) /\ Outcome(p).Err = NilErr)
        => /\ ~Outcome(p).Result.nil
           /\ \A n \in Names \ {"active"} :
                 Outcome(p).Result.Optionals[n] = resp[p].body.fields[n]
           /\ Outcome(p).Result.Optionals["active"] = Absent
           /\ resp[p].body.fields["active"] = "true" => Outcome(p).Result.Active
           /\ resp[p].body.fields = [NoFields EXCEPT !["active"] = "true"]
                => Outcome(p).Result = MkResult(TRUE, NoFields)

\* A response with active true and a scope has been decoded; the scope is
\* in Optionals.
C17_Witness ==
    \E p \in Procs :
        /\ pc[p] = "next" /\ Introspected(p) /\ IsOK200Object(resp[p])
        /\ resp[p].body.fields["active"] = "true"
        /\ resp[p].body.fields["scope"] # Absent
        /\ ctx[p].Err = NilErr /\ ctx[p].Result.Active
        /\ ctx[p].Result.Optionals["scope"] = resp[p].body.fields["scope"]

\* C18 as stated: the authority has received one call for each invocation
\* of introspect.
C18_OneCallPerInvocation ==
    \A t \in ReqTokens : hits[t] = calls[t]

\* C18 amended: the authority has received one call for each invocation of
\* introspect with an endpoint that parses, and none with an endpoint that
\* does not; a request that was not answered from the cache has invoked
\* introspect, and without a cache no request is answered from the cache.
C18_AtMostOneCall ==
    /\ \A t \in ReqTokens :
          hits[t] = IF URLParses(opt.endpoint) THEN calls[t] ELSE 0
    /\ \A p \in Procs :
          /\ ~opt.cache => ~cached[p]
          /\ Introspected(p) => (calls[tok[p]] >= 1 /\ (resp[p] # NoResp) = URLParses(opt.endpoint))

\* Without a cache two validations have made one call each, one of them
\* failed.
C18_Witness ==
    \E p \in Procs :
        /\ ~opt.cache /\ URLParses(opt.endpoint)
        /\ pc[p] = "next" /\ Introspected(p) /\ ctx[p].Err # NilErr
        /\ hits[tok[p]] = 2 /\ calls[tok[p]] = 2

\* C19: with an endpoint that parses, the authority has received a call of
\* its own for every request in flight that missed the cache and has come
\* back from introspect, and the cache has had a Store for every such
\* request that got a Result.
C19_NoDeduplication ==
    \A t \in ReqTokens :
        LET back == {p \in Procs : Introspected(p) /\ tok[p] = t}
            done == {p \in back : pc[p] = "next" /\ ctx[p].Err = NilErr}
        IN  URLParses(opt.endpoint)
            => /\ hits[t] >= Cardinality(back)
               /\ \A p \in back : resp[p] # NoResp
               /\ opt.cache => Cardinality(TimersOf(t)) >= Cardinality(done)

\* Two validations of a token ran at the same time, both missed the cache
\* and called the authority, and both Results were stored.
C19_Witness ==
    \E p, q \in Procs :
        /\ p # q /\ tok[p] = tok[q] /\ tok[p] \in ReqTokens
        /\ opt.cache /\ overlap[tok[p]] /\ TTLNotElapsed(tok[p])
        /\ pc[p] = "next" /\ pc[q] = "next" /\ ~cached[p] /\ ~cached[q]
        /\ ctx[p].Err = NilErr /\ ctx[q].Err = NilErr
        /\ hits[tok[p]] = 2 /\ Cardinality(TimersOf(tok[p])) = 2

\* The value the first option of the kind that names the key gives it.
FirstGiven(kind, name) ==
    LET idx == {i \in 1..Len(optsGiven) :
                  optsGiven[i].op = kind /\ optsGiven[i].m[name] # Absent}
    IN  IF idx = {} THEN Absent
        ELSE optsGiven[CHOOSE i \in idx : \A j \in idx : i <= j].m[name]
FirstWrite(default, kind, name) ==
    IF default[name] # Absent THEN default[name] ELSE FirstGiven(kind, name)
\* Header names that differ in letter case only have one canonical name.
CanonicalName(n) == IF n = "content-type" THEN "Content-Type" ELSE n

\* C15: every header and body field of the Options has the value of its
\* default if it has one, else the value the first option naming it gave,
\* else none; an outbound request has the credential as its token field,
\* the other body fields and the header of the Options.
C15_FirstWriteWins ==
    /\ \A n \in HeaderNames : opt.header[n] = FirstWrite(DefaultHeader, "WithAddedHeaders", n)
    /\ \A n \in BodyNames : opt.body[n] = FirstWrite(DefaultBody, "WithAddedBody", n)
    /\ \A p \in Procs : outb[p].sent =>
          /\ outb[p].body["token"] = tok[p]
          /\ \A n \in BodyNames \ {"token"} : outb[p].body[n] = opt.body[n]
          /\ outb[p].header = opt.header

\* An option gave a token field, a later one a field that an earlier one
\* or a default holds, and a request has been built.
C15_Witness ==
    \E p \in Procs :
        /\ outb[p].sent /\ Len(optsGiven) = 2
        /\ optsGiven[1].op = "WithAddedBody" /\ optsGiven[1].m["token"] = "x"
        /\ optsGiven[2].op = "WithAddedBody" /\ optsGiven[2].m["token"] = "y"
        /\ outb[p].body["token"] = tok[p] /\ tok[p] \in ReqTokens
        /\ opt.body["token"] = ""

\* C16: the header of the Options never holds two names that differ in
\* letter case only.
C16_CaseInsensitiveMerge ==
    \A a, b \in HeaderNames :
        (a # b /\ CanonicalName(a) = CanonicalName(b))
        => ~(opt.header[a] # Absent /\ opt.header[b] # Absent)

\* q discovers the issuer of p with one slash added, p's ending in none.
SlashAdded(p, q) ==
    /\ disc[p].state \in {"get", "returned"} /\ disc[q].state \in {"get", "returned"}
    /\ disc[p].iss[Len(disc[p].iss)] # "/"
    /\ disc[q].iss = disc[p].iss \o <<"/">>

\* C20: the discovery of an issuer without a trailing slash and that of the
\* same issuer with one slash added build the same URI, and return the
\* same endpoint when both get the document published there.
C20_TrailingSlash ==
    \A p, q \in Procs :
        SlashAdded(p, q)
        => /\ disc[p].uri = disc[q].uri
           /\ (disc[p].state = "returned" /\ disc[q].state = "returned"
               /\ disc[p].endpoint # <<>> /\ disc[q].endpoint # <<>>)
               => disc[p].endpoint = disc[q].endpoint

\* Both discoveries have returned the endpoint of the document.
C20_Witness ==
    \E p, q \in Procs :
        /\ SlashAdded(p, q)
        /\ disc[p].state = "returned" /\ disc[q].state = "returned"
        /\ disc[p].err = NilErr /\ disc[q].err = NilErr
        /\ disc[p].endpoint # <<>> /\ disc[p].endpoint = disc[q].endpoint

StoresInside == {p \in Procs : pc[p] = "store_cs"}
EvictionsInside == {i \in 1..Len(timers) : timers[i].state = "evicting"}
GetsInside == {p \in Procs : pc[p] = "get_cs"}

\* C22: at most one writer, a Store or an eviction function, is inside its
\* critical section, and while one is inside no Get is inside.
C22_WriterAlone ==
    /\ Cardinality(StoresInside) + Cardinality(EvictionsInside) <= 1
    /\ (StoresInside # {} \/ EvictionsInside # {}) => GetsInside = {}

\* An eviction function is inside while a Get of its key has been called
\* and waits outside.
C22_Witness ==
    \E i \in EvictionsInside :
        \E p \in Procs : pc[p] = "get" /\ tok[p] = timers[i].key

\* Two Get calls are inside their read sections together.
TwoGetsInside == Cardinality(GetsInside) = 2

\* The Store calls of key k that have been called and have not returned.
StoresInProgress(k) == {p \in Procs : pc[p] \in {"store", "store_cs"} /\ tok[p] = k}

CacheEmpty == \A k \in Tokens : results[k] = NoEntry /\ expiry[k] = 0

\* The table holds an entry or a timer for key k.
Held(k) == results[k].present \/ expiry[k] # 0

\* C24: under the fair scheduler, a key the table holds is later out of the
\* table, entry and timer; and from some time on the cache is empty and
\* stays empty: clients store a bounded number of times, and after the last
\* Store of a key its entry and its timer are removed and do not come back.
C24_SelfExpires ==
    /\ \A k \in Tokens : Held(k) ~> ~Held(k)
    /\ <>[]CacheEmpty

\* Every call the clients may make has been made, a Store among them whose
\* timer was due after MaxTime; its eviction has run and the cache is empty.
C24_Witness ==
    /\ nreq = MaxOps
    /\ \A p \in Procs : pc[p] = "idle"
    /\ \E i \in 1..Len(timers) : timers[i].state = "done" /\ timers[i].deadline > MaxTime
    /\ \A i \in 1..Len(timers) : timers[i].state \in {"done", "stopped"}
    /\ CacheEmpty

\* No goroutine is inside the lock.
LockFree == writer = "none" /\ readers = {}

\* The eviction function of timer i has been started and has not returned.
EvictionRunning(i) == i <= Len(timers) /\ timers[i].state \in {"fired", "evicting"}
EvictionDone(i) == i <= Len(timers) /\ timers[i].state = "done"

StepOf(a) ==
    \/ \E p \in Procs : pc[p] = "store_cs" /\ tok[p] = a /\ pc'[p] # "store_cs"
    \/ \E i \in TimersOf(a) : timers'[i] # timers[i]

\* The step leaves key b as it is: its entry, its timer in the table, the
\* timers its Stores scheduled, and so the value Get(b) returns.
Untouched(b) ==
    /\ results'[b] = results[b]
    /\ expiry'[b] = expiry[b]
    /\ \A i \in TimersOf(b) : timers'[i] = timers[i]
    /\ MapGet(b)' = MapGet(b)

\* C26: a Store of a key, and the eviction scheduled for that key, leave
\* every other key's entry and timers unchanged.
C26_OtherKeysUntouched ==
    [][\A a \in Tokens : StepOf(a) => \A b \in Tokens \ {a} : Untouched(b)]_vars

\* The eviction of one key has run while another key, stored too, still has
\* its entry and its pending timer.
C26_Witness ==
    \E a \in Tokens : \E b \in Tokens \ {a} :
        /\ results[a] = NoEntry
        /\ \E i \in TimersOf(a) : timers[i].state = "done"
        /\ results[b].present
        /\ expiry[b] # 0
        /\ timers[expiry[b]].key = b /\ timers[expiry[b]].state = "pending"

\* AuthFunc of the gRPC interceptor, for the metadata r and the outcome ir
\* introspectionResult gives for its token: the context returned, with the
\* value under resKey, and the error returned.
AuthFunc(r, ir) ==
    IF AuthFromMD(r).err
    THEN [ctx |-> [set |-> TRUE, Result |-> NilRes, Err |-> ErrNoBearer], err |-> NilErr]
    ELSE [ctx |-> [set |-> TRUE, Result |-> ir.res, Err |-> ir.err], err |-> NilErr]

\* An outcome is attached: a value under resKey that holds an error or a
\* Result.
Attached(c) == c.set /\ (c.Err # NilErr \/ ~c.Result.nil)

\* C27: a request the handler takes is worked on or passed on at once; the
\* handler returns only from the next handler; the next handler, once
\* called, is not called again for the request; when it is called the
\* context holds an outcome; and AuthFunc, given the same outcome of
\* introspectionResult, returns a context holding an outcome and a nil
\* error, whatever the metadata.
C27_AlwaysPassedOn ==
    [][/\ nreq' # nreq => \E p \in Procs : pc[p] = "idle" /\ pc'[p] # "idle"
       /\ \A p \in Procs :
            /\ (pc[p] # "idle" /\ pc'[p] = "idle") => pc[p] = "next"
            /\ (pc[p] = "next" /\ pc'[p] # "next") => pc'[p] = "idle"
            /\ pc'[p] = "next" => Attached(ctx'[p])
            /\ (pc[p] # "next" /\ pc'[p] = "next") =>
                \A r \in AllRequests :
                    LET a == AuthFunc(r, [res |-> ctx'[p].Result, err |-> ctx'[p].Err])
                    IN a.err = NilErr /\ Attached(a.ctx)
      ]_vars

\* One request without a credential is with the next handler, ErrNoBearer
\* attached, and so is one validated and stored, its Result attached.
C27_Witness ==
    \E p \in Procs : \E q \in Procs \ {p} :
        /\ pc[p] = "next" /\ ctx[p].set /\ ctx[p].Err = ErrNoBearer /\ ctx[p].Result.nil
        /\ pc[q] = "next" /\ ctx[q].set /\ ctx[q].Err = NilErr /\ ~ctx[q].Result.nil
        /\ results[tok[q]].present

\* A request answered from the cache is with the next handler.
PassedOnCached == \E p \in Procs : pc[p] = "next" /\ cached[p] /\ Attached(ctx[p])

\* A request whose introspection failed is with the next handler.
PassedOnFailed ==
    \E p \in Procs :
        /\ pc[p] = "next" /\ tok[p] # "" /\ Attached(ctx[p])
        /\ ctx[p].Err \notin {NilErr, ErrNoBearer}

====
